---- MODULE Spec2Model ----
(***************************************************************************)
(* Model of src/apps.py: a Streamlit dashboard over a shipment data set.   *)
(*                                                                         *)
(* The script is re-run from the top on every user interaction, so every   *)
(* action below is one run of the script: the widget that changed takes    *)
(* its new value, every other widget keeps its value, and everything the   *)
(* script computes (the filtered graph, the route, the legs) is computed   *)
(* again.  A button is true only in the run its click triggers, so the     *)
(* output of a handler is gone after any other interaction.                *)
(*                                                                         *)
(* The graph library (networkx 3.x) is modelled by what its calls do:      *)
(*   DiGraph.add_edge     one edge per ordered pair, attributes updated    *)
(*                        in place, adjacency in first-insertion order;    *)
(*   shortest_path        Dijkstra on the named weight, NodeNotFound when  *)
(*                        source or target is no node of the graph,        *)
(*                        NetworkXNoPath when the target is unreachable;   *)
(*                        the library searches from both ends, so among    *)
(*                        routes of equal weight it may return another     *)
(*                        one than the search below, of the same total;    *)
(*   all_simple_paths     depth-first enumeration in adjacency order,      *)
(*                        NodeNotFound when the source is no node, nothing *)
(*                        when the target (a string) is no node, the path  *)
(*                        of one node when source and target are the same. *)
(* NodeNotFound is a NetworkXException and no NetworkXNoPath.              *)
(*                                                                         *)
(* Locations are the strings of LocationNames (one letter each, so that no *)
(* name is spelled with other names), transport modes the strings of Modes *)
(* (none of them "All"); distances and emissions are small naturals.  Data *)
(* sets have at least one row and no row from a location to itself.  The   *)
(* planner's number inputs for weight and distance stay at their defaults. *)
(***************************************************************************)
EXTENDS Naturals, Sequences, FiniteSets, TLC

VARIABLES sc_df, G, feature,
          start, end, transport_choice,
          G_filtered, outcome, path, total_emission, total_distance, all_routes,
          num_legs, origin_0, dest, mode, legs, results

vars == <<sc_df, G, feature, start, end, transport_choice,
          G_filtered, outcome, path, total_emission, total_distance, all_routes,
          num_legs, origin_0, dest, mode, legs, results>>

routeVars == <<start, end, transport_choice>>
planVars == <<num_legs, origin_0, dest, mode>>

----------------------------------------------------------------------------
(* Bounds of the model and the data sets it is run on.                     *)

\* Longest data set of the small family (rows of the CSV).
MaxRecords == 3
\* Number of consecutive hops of the chain family (ChainLen + 1 locations).
ChainLen == 6
\* Longest data set of the planner's family.
MaxPlanRecords == 2

LocationNames == <<"A", "B", "C", "D", "E", "F", "G", "H", "I">>
Loc(i) == LocationNames[i]

Modes == {"Road", "Air"}

\* (distance_km, co2_emissions_kg) of a row: the two are told apart, and the
\* row with the lower emission is the one with the higher distance.
Weights == {<<2, 0>>, <<1, 1>>}

Row(o, d, m, dist, em) ==
    [origin |-> o, destination |-> d, mode |-> m,
     distance_km |-> dist, emissions_kgco2e |-> em]

\* Ordered pairs of the small family: a chain A-B-C, its shortcut A-C and
\* the back edge B-A (a cycle).
SmallPairs == {<<1, 2>>, <<2, 3>>, <<1, 3>>, <<2, 1>>}

SmallPool ==
    {Row(Loc(p[1]), Loc(p[2]), m, w[1], w[2]) :
        p \in SmallPairs, m \in Modes, w \in Weights}

SeqsUpTo(S, n) == UNION {[1..k -> S] : k \in 1..n}

\* The small family: up to MaxRecords rows of the pool.  The names of the
\* locations are immaterial, so the first row is taken to join A to B.
SmallDatasets ==
    {df \in SeqsUpTo(SmallPool, MaxRecords) :
        df[1].origin = Loc(1) /\ df[1].destination = Loc(2)}

\* The chain family: Road rows Loc(i) -> Loc(i+1), followed by Air rows
\* Loc(i) -> Loc(i+2) for the i of a set K.
ChainRows == [i \in 1..ChainLen |-> Row(Loc(i), Loc(i + 1), "Road", 2, 1)]
SkipRows == [i \in 1..(ChainLen - 1) |-> Row(Loc(i), Loc(i + 2), "Air", 1, 3)]
SkipSel(K) ==
    LET Test(r) == \E i \in K : r.origin = Loc(i)
    IN  SelectSeq(SkipRows, Test)
ChainDatasets == {ChainRows \o SkipSel(K) : K \in SUBSET (1..(ChainLen - 1))}

Datasets == SmallDatasets \cup ChainDatasets

PlanPool ==
    {Row(Loc(p[1]), Loc(p[2]), m, w[1], w[2]) :
        p \in {<<1, 2>>, <<2, 3>>}, m \in Modes, w \in {<<2, 0>>}}
PlanDatasets == SeqsUpTo(PlanPool, MaxPlanRecords)

----------------------------------------------------------------------------
(* pandas: a column's distinct values in order of first appearance.        *)

RECURSIVE Unique(_)
Unique(s) ==
    IF s = <<>> THEN <<>>
    ELSE LET front == Unique(SubSeq(s, 1, Len(s) - 1))
             x == s[Len(s)]
         IN  IF \E i \in DOMAIN front : front[i] = x THEN front
             ELSE Append(front, x)

Column(df, c) == [i \in DOMAIN df |-> df[i][c]]
Range(s) == {s[i] : i \in DOMAIN s}

Origins(df) == Unique(Column(df, "origin"))
Destinations(df) == Unique(Column(df, "destination"))
ModesOf(df) == Unique(Column(df, "mode"))

----------------------------------------------------------------------------
(* networkx.DiGraph: the sequence of its edges in first-insertion order.   *)

NewDiGraph == <<>>

Nodes(g) == {g[i].u : i \in DOMAIN g} \cup {g[i].v : i \in DOMAIN g}

HasEdge(g, u, v) == \E i \in DOMAIN g : g[i].u = u /\ g[i].v = v

\* G[u][v]: the attribute dictionary of the edge (u, v).
EdgeData(g, u, v) == g[CHOOSE i \in DOMAIN g : g[i].u = u /\ g[i].v = v]

\* Mutant of add_edge: an edge already in the graph keeps its attributes.
add_edge_keep(g, u, v, distance, emission) ==
    IF HasEdge(g, u, v) THEN g
    ELSE Append(g, [u |-> u, v |-> v, distance |-> distance, emission |-> emission])

\* G.add_edge(u, v, distance=..., emission=...): a new edge goes to the end
\* of the adjacency, an edge already there has its attributes overwritten.
add_edge(g, u, v, distance, emission) ==
    IF HasEdge(g, u, v)
    THEN [i \in DOMAIN g |->
            IF g[i].u = u /\ g[i].v = v
            THEN [g[i] EXCEPT !.distance = distance, !.emission = emission]
            ELSE g[i]]
    ELSE Append(g, [u |-> u, v |-> v, distance |-> distance, emission |-> emission])

\* Mutant of PassesFilter: the transport choice is not looked at.
PassesAnyChoice(row, choice) == TRUE

\* transport_choice == "All" or row["mode"] == transport_choice
PassesFilter(row, choice) == choice = "All" \/ row.mode = choice

\* for _, row in sc_df.iterrows(): if ...: g.add_edge(...)
RECURSIVE AddRows(_, _, _)
AddRows(g, rows, choice) ==
    IF rows = <<>> THEN g
    ELSE LET row == Head(rows)
             g1 == IF PassesFilter(row, choice)
                   THEN add_edge(g, row.origin, row.destination,
                                 row.distance_km, row.emissions_kgco2e)
                   ELSE g
         IN  AddRows(g1, Tail(rows), choice)

\* The module-level graph G of all rows.
BuildG(df) == AddRows(NewDiGraph, df, "All")

\* The graph the Find Route handler builds for one query.
BuildFiltered(df, choice) == AddRows(NewDiGraph, df, choice)

\* G.edges(n): the out-edges of n in adjacency order.
OutEdges(g, n) ==
    LET Test(e) == e.u = n
    IN  SelectSeq(g, Test)

----------------------------------------------------------------------------
(* nx.shortest_path(G_filtered, source=start, target=end, weight="emission") *)

\* Mutant of RouteWeight: the route is minimised on distance.
RouteWeightDistance(e) == e.distance

\* weight="emission": the edge attribute the route minimises.
RouteWeight(e) == e.emission

\* Relaxation of the out-edges of a settled node u, in adjacency order.
RECURSIVE Relax(_, _, _)
Relax(edges, u, st) ==
    IF edges = <<>> THEN st
    ELSE LET e == Head(edges)
             nd == st.dist[u] + RouteWeight(e)
         IN  IF e.v \notin DOMAIN st.dist \/ nd < st.dist[e.v]
             THEN Relax(Tail(edges), u,
                        [dist |-> (e.v :> nd) @@ st.dist,
                         pred |-> (e.v :> u) @@ st.pred])
             ELSE Relax(Tail(edges), u, st)

\* Dijkstra's loop: settle the closest unsettled node, relax its out-edges.
RECURSIVE Dijkstra(_, _, _)
Dijkstra(g, st, settled) ==
    LET fringe == DOMAIN st.dist \ settled
    IN  IF fringe = {} THEN st
        ELSE LET u == CHOOSE n \in fringe :
                          \A m \in fringe : st.dist[n] <= st.dist[m]
             IN  Dijkstra(g, Relax(OutEdges(g, u), u, st), settled \cup {u})

\* The path from source to n along the predecessors.
RECURSIVE PathTo(_, _, _)
PathTo(pred, source, n) ==
    IF n = source THEN <<source>>
    ELSE Append(PathTo(pred, source, pred[n]), n)

shortest_path(g, source, target) ==
    IF source \notin Nodes(g) \/ target \notin Nodes(g)
    THEN [status |-> "NodeNotFound", path |-> <<>>]
    ELSE IF source = target
    THEN [status |-> "ok", path |-> <<source>>]
    ELSE LET st == Dijkstra(g, [dist |-> (source :> 0), pred |-> <<>>], {})
         IN  IF target \in DOMAIN st.dist
             THEN [status |-> "ok", path |-> PathTo(st.pred, source, target)]
             ELSE [status |-> "NetworkXNoPath", path |-> <<>>]

----------------------------------------------------------------------------
(* nx.all_simple_paths(G_filtered, source=start, target=end, cutoff=5)     *)

cutoff == 5
max_routes == 5

\* The simple paths found below `sofar` (a path from the source), looking at
\* the children `edges` of its last node in adjacency order.  A child on the
\* path is skipped; the target is yielded and not passed through; any other
\* child is descended into while the path has fewer than `cut` nodes.
RECURSIVE Descend(_, _, _, _, _)
Descend(g, sofar, edges, target, cut) ==
    IF edges = <<>> THEN <<>>
    ELSE LET c == Head(edges).v
             rest == Descend(g, sofar, Tail(edges), target, cut)
         IN  IF \E i \in DOMAIN sofar : sofar[i] = c THEN rest
             ELSE IF c = target THEN <<Append(sofar, c)>> \o rest
             ELSE IF Len(sofar) < cut
             THEN Descend(g, Append(sofar, c), OutEdges(g, c), target, cut) \o rest
             ELSE rest

all_simple_paths(g, source, target, cut) ==
    IF source \notin Nodes(g)
    THEN [status |-> "NodeNotFound", paths |-> <<>>]
    ELSE IF target \notin Nodes(g)
    THEN [status |-> "ok", paths |-> <<>>]
    ELSE IF source = target
    THEN [status |-> "ok", paths |-> <<(<<source>>)>>]
    ELSE [status |-> "ok",
          paths |-> Descend(g, <<source>>, OutEdges(g, source), target, cut)]

\* Mutant of TakeRoutes: the loop breaks one route late.
TakeRoutesLate(paths) ==
    SubSeq(paths, 1, IF Len(paths) < max_routes + 1 THEN Len(paths) ELSE max_routes + 1)

\* for idx, route in enumerate(...): if idx >= max_routes: break
TakeRoutes(paths) ==
    SubSeq(paths, 1, IF Len(paths) < max_routes THEN Len(paths) ELSE max_routes)

----------------------------------------------------------------------------
(* sum(G_filtered[p[i]][p[i + 1]][attr] for i in range(len(p) - 1))        *)

\* Mutant of PathSum: the last edge of the route is left out.
RECURSIVE PathSumShort(_, _, _)
PathSumShort(g, p, attr) ==
    IF Len(p) < 3 THEN 0
    ELSE PathSumShort(g, SubSeq(p, 1, Len(p) - 1), attr)
         + EdgeData(g, p[Len(p) - 2], p[Len(p) - 1])[attr]

RECURSIVE PathSum(_, _, _)
PathSum(g, p, attr) ==
    IF Len(p) < 2 THEN 0
    ELSE PathSum(g, SubSeq(p, 1, Len(p) - 1), attr)
         + EdgeData(g, p[Len(p) - 1], p[Len(p)])[attr]

\* One entry of all_routes.  The "route" string " -> ".join(route) is kept
\* as the sequence of its nodes.
RouteEntry(g, route) ==
    [route |-> route,
     emission |-> PathSum(g, route, "emission"),
     distance |-> PathSum(g, route, "distance")]

----------------------------------------------------------------------------
(* Logistics Travel Planner: the legs and their predicted emissions.       *)

None == "None"

min_legs == 1
max_legs == 5
default_legs == 2
default_weight == 10
default_distance == 100

\* LE.transform([mode])[0]: the index of the label among the sorted classes.
LE_transform(m) == IF m = "Air" THEN 0 ELSE 1

\* MODEL.predict([[distance, weight, mode_enc]])[0]: a fixed function of its
\* three inputs.
MODEL_predict(distance, weight, mode_enc) == distance * weight + mode_enc

\* The distance of the first row matching the leg, or the number input's
\* value when there is none.
LegDistance(df, o, d, m) ==
    LET Test(r) == r.origin = o /\ r.destination = d /\ r.mode = m
        distance_val == SelectSeq(df, Test)
    IN  IF distance_val # <<>> THEN distance_val[1].distance_km
        ELSE default_distance

\* Mutant of NextPrevDestination: the previous destination is never set.
StalePrevDestination(prev, destination) == prev

\* prev_destination = destination, at the end of the loop body.
NextPrevDestination(prev, destination) == destination

\* for i in range(num_legs): ... legs.append(...); prev_destination = destination
RECURSIVE LegLoop(_, _, _, _, _, _, _)
LegLoop(df, i, n, st, o0, dests, modes) ==
    IF i > n THEN st.legs
    ELSE LET o == IF i = 1 THEN o0 ELSE st.prev_destination
             leg == [origin |-> o, destination |-> dests[i], mode |-> modes[i],
                     distance |-> LegDistance(df, o, dests[i], modes[i]),
                     weight |-> default_weight]
         IN  LegLoop(df, i + 1, n,
                     [legs |-> Append(st.legs, leg),
                      prev_destination |->
                          NextPrevDestination(st.prev_destination, dests[i])],
                     o0, dests, modes)

BuildLegs(df, n, o0, dests, modes) ==
    LegLoop(df, 1, n, [legs |-> <<>>, prev_destination |-> None], o0, dests, modes)

\* for idx, leg in enumerate(legs): results.append({"Leg": idx + 1, ...})
LegResults(ls) ==
    [idx \in 1..Len(ls) |->
        [Leg |-> idx,
         Origin |-> ls[idx].origin,
         Destination |-> ls[idx].destination,
         Mode |-> ls[idx].mode,
         Distance_km |-> ls[idx].distance,
         Weight_tons |-> ls[idx].weight,
         Emission_kgCO2e |->
             MODEL_predict(ls[idx].distance, ls[idx].weight, LE_transform(ls[idx].mode))]]

RECURSIVE SumEmission(_)
SumEmission(rs) ==
    IF rs = <<>> THEN 0
    ELSE SumEmission(SubSeq(rs, 1, Len(rs) - 1)) + rs[Len(rs)].Emission_kgCO2e

----------------------------------------------------------------------------
(* The session: the widgets and one run of the script per interaction.     *)

Calculator == "Carbon Emission Calculator"
RouteFinder == "Shortest Route Finder"
Planner == "Logistics Travel Planner"

\* A selectbox shows its first option until the user picks another; a widget
\* that a run does not draw loses its value.
Pad(s, n, x) == [i \in 1..n |-> IF i <= Len(s) THEN s[i] ELSE x]

RouteWidgetsDefault ==
    /\ start' = Origins(sc_df)[1]
    /\ end' = Destinations(sc_df)[1]
    /\ transport_choice' = "All"

PlanWidgetsDefault ==
    /\ num_legs' = default_legs
    /\ origin_0' = Origins(sc_df)[1]
    /\ dest' = Pad(<<>>, default_legs, Destinations(sc_df)[1])
    /\ mode' = Pad(<<>>, default_legs, ModesOf(sc_df)[1])

\* A run in which no button is pressed shows no result.
NoOutput ==
    /\ G_filtered' = NewDiGraph
    /\ outcome' = "none"
    /\ path' = <<>>
    /\ total_emission' = 0
    /\ total_distance' = 0
    /\ all_routes' = <<>>
    /\ results' = <<>>

InitWith(df) ==
    /\ sc_df = df
    /\ G = BuildG(df)
    /\ feature = Calculator
    /\ start = Origins(df)[1]
    /\ end = Destinations(df)[1]
    /\ transport_choice = "All"
    /\ num_legs = default_legs
    /\ origin_0 = Origins(df)[1]
    /\ dest = Pad(<<>>, default_legs, Destinations(df)[1])
    /\ mode = Pad(<<>>, default_legs, ModesOf(df)[1])
    /\ legs = <<>>
    /\ G_filtered = NewDiGraph
    /\ outcome = "none"
    /\ path = <<>>
    /\ total_emission = 0
    /\ total_distance = 0
    /\ all_routes = <<>>
    /\ results = <<>>

Init == \E df \in Datasets : InitWith(df)

InitPlan == \E df \in PlanDatasets : InitWith(df)

\* The sidebar radio.
SelectFeature(f) ==
    /\ f # feature
    /\ feature' = f
    /\ RouteWidgetsDefault
    /\ PlanWidgetsDefault
    /\ legs' = IF f = Planner
               THEN BuildLegs(sc_df, num_legs', origin_0', dest', mode')
               ELSE <<>>
    /\ NoOutput
    /\ UNCHANGED <<sc_df, G>>

SelectStart(s) ==
    /\ feature = RouteFinder
    /\ s \in Range(Origins(sc_df))
    /\ s # start
    /\ start' = s
    /\ NoOutput
    /\ UNCHANGED <<sc_df, G, feature, end, transport_choice, planVars, legs>>

SelectEnd(t) ==
    /\ feature = RouteFinder
    /\ t \in Range(Destinations(sc_df))
    /\ t # end
    /\ end' = t
    /\ NoOutput
    /\ UNCHANGED <<sc_df, G, feature, start, transport_choice, planVars, legs>>

SelectTransport(c) ==
    /\ feature = RouteFinder
    /\ c \in {"All"} \cup Range(ModesOf(sc_df))
    /\ c # transport_choice
    /\ transport_choice' = c
    /\ NoOutput
    /\ UNCHANGED <<sc_df, G, feature, start, end, planVars, legs>>

\* Mutant of FilteredGraph: the query adds its edges to the module-level G.
FilteredOnG(df, choice) == AddRows(G, df, choice)

\* G_filtered = nx.DiGraph(), then the loop over the rows.
FilteredGraph(df, choice) == BuildFiltered(df, choice)

\* if st.button("Find Route"): the whole handler.  NetworkXNoPath is caught
\* and reported; NodeNotFound is no NetworkXNoPath and leaves the handler.
FindRoute ==
    /\ feature = RouteFinder
    /\ LET g == FilteredGraph(sc_df, transport_choice)
           sp == shortest_path(g, start, end)
           asp == all_simple_paths(g, start, end, cutoff)
           taken == TakeRoutes(asp.paths)
       IN  /\ G_filtered' = g
           /\ IF sp.status = "ok"
              THEN /\ path' = sp.path
                   /\ total_emission' = PathSum(g, sp.path, "emission")
                   /\ total_distance' = PathSum(g, sp.path, "distance")
                   /\ IF asp.status = "ok"
                      THEN /\ outcome' = "route"
                           /\ all_routes' = [i \in DOMAIN taken |-> RouteEntry(g, taken[i])]
                      ELSE /\ outcome' = asp.status
                           /\ all_routes' = <<>>
              ELSE /\ outcome' = IF sp.status = "NetworkXNoPath"
                                 THEN "no_route" ELSE sp.status
                   /\ path' = <<>>
                   /\ total_emission' = 0
                   /\ total_distance' = 0
                   /\ all_routes' = <<>>
    /\ results' = <<>>
    /\ UNCHANGED <<sc_df, G, feature, routeVars, planVars, legs>>

\* One run of the planner's widgets section with the widget values primed.
PlanRerun ==
    /\ legs' = BuildLegs(sc_df, num_legs', origin_0', dest', mode')
    /\ NoOutput
    /\ UNCHANGED <<sc_df, G, feature, routeVars>>

SetNumLegs(n) ==
    /\ feature = Planner
    /\ n \in min_legs..max_legs
    /\ n # num_legs
    /\ num_legs' = n
    /\ dest' = Pad(SubSeq(dest, 1, IF n < num_legs THEN n ELSE num_legs),
                   n, Destinations(sc_df)[1])
    /\ mode' = Pad(SubSeq(mode, 1, IF n < num_legs THEN n ELSE num_legs),
                   n, ModesOf(sc_df)[1])
    /\ UNCHANGED origin_0
    /\ PlanRerun

SelectOrigin(o) ==
    /\ feature = Planner
    /\ o \in Range(Origins(sc_df))
    /\ o # origin_0
    /\ origin_0' = o
    /\ UNCHANGED <<num_legs, dest, mode>>
    /\ PlanRerun

SelectDestination(i, d) ==
    /\ feature = Planner
    /\ i \in 1..num_legs
    /\ d \in Range(Destinations(sc_df))
    /\ d # dest[i]
    /\ dest' = [dest EXCEPT ![i] = d]
    /\ UNCHANGED <<num_legs, origin_0, mode>>
    /\ PlanRerun

SelectMode(i, m) ==
    /\ feature = Planner
    /\ i \in 1..num_legs
    /\ m \in Range(ModesOf(sc_df))
    /\ m # mode[i]
    /\ mode' = [mode EXCEPT ![i] = m]
    /\ UNCHANGED <<num_legs, origin_0, dest>>
    /\ PlanRerun

\* if st.button("Calculate Total Emissions"): the whole handler.
CalculateTotal ==
    /\ feature = Planner
    /\ results' = LegResults(legs)
    /\ total_emission' = SumEmission(LegResults(legs))
    /\ outcome' = "plan"
    /\ G_filtered' = NewDiGraph
    /\ path' = <<>>
    /\ total_distance' = 0
    /\ all_routes' = <<>>
    /\ UNCHANGED <<sc_df, G, feature, routeVars, planVars, legs>>

Next ==
    \/ \E f \in {Calculator, RouteFinder} : SelectFeature(f)
    \/ \E s \in Range(LocationNames) : SelectStart(s)
    \/ \E t \in Range(LocationNames) : SelectEnd(t)
    \/ \E c \in {"All"} \cup Modes : SelectTransport(c)
    \/ FindRoute

NextPlan ==
    \/ \E f \in {Calculator, Planner} : SelectFeature(f)
    \/ \E n \in min_legs..max_legs : SetNumLegs(n)
    \/ \E o \in Range(LocationNames) : SelectOrigin(o)
    \/ \E i \in 1..max_legs, d \in Range(LocationNames) : SelectDestination(i, d)
    \/ \E i \in 1..max_legs, m \in Modes : SelectMode(i, m)
    \/ CalculateTotal

Spec == Init /\ [][Next]_vars

SpecPlan == InitPlan /\ [][NextPlan]_vars

----------------------------------------------------------------------------
(* What the claims speak of, defined on sets and not by the algorithms.    *)

Locations == Range(LocationNames)

\* A Find Route query has run to its end (or to its exception).
Queried == outcome \in {"route", "no_route", "NodeNotFound"}

EdgeSet(g) == {<<g[i].u, g[i].v>> : i \in DOMAIN g}

\* The nodes reached from the nodes of S along edges of g.
RECURSIVE ReachSet(_, _)
ReachSet(g, S) ==
    LET T == S \cup {e[2] : e \in {x \in EdgeSet(g) : x[1] \in S}}
    IN  IF T = S THEN S ELSE ReachSet(g, T)

\* There is a directed path from a to b in g (of no edge when a = b).
Connected(g, a, b) == a \in Nodes(g) /\ b \in ReachSet(g, {a})

IsPath(g, p) ==
    /\ Len(p) >= 1
    /\ \A i \in 1..(Len(p) - 1) : <<p[i], p[i + 1]>> \in EdgeSet(g)

IsSimple(p) == \A i, j \in DOMAIN p : i # j => p[i] # p[j]

\* Every simple path of g that starts with one of `front`, by extension.
RECURSIVE Extensions(_, _, _)
Extensions(g, front, acc) ==
    LET next == UNION {{Append(q, e[2]) :
                          e \in {x \in EdgeSet(g) : /\ x[1] = q[Len(q)]
                                                     /\ x[2] \notin Range(q)}} :
                       q \in front}
    IN  IF next = {} THEN acc ELSE Extensions(g, next, acc \cup next)

SimplePaths(g, a, b) ==
    IF a \notin Nodes(g) THEN {}
    ELSE {q \in Extensions(g, {<<a>>}, {<<a>>}) : q[Len(q)] = b}

\* The sum of f over a finite set of naturals' indices.
RECURSIVE SumOver(_, _, _, _)
SumOver(I, g, p, attr) ==
    IF I = {} THEN 0
    ELSE LET i == CHOOSE k \in I : TRUE
         IN  EdgeData(g, p[i], p[i + 1])[attr] + SumOver(I \ {i}, g, p, attr)

\* The total of an attribute over the edges of path p.
Total(g, p, attr) == SumOver(1..(Len(p) - 1), g, p, attr)

\* The rows of the data set that pass the choice and join o to d.
RowsOf(df, choice, o, d) ==
    {i \in DOMAIN df : /\ df[i].origin = o
                       /\ df[i].destination = d
                       /\ (choice = "All" \/ df[i].mode = choice)}

Last(I) == CHOOSE i \in I : \A j \in I : j <= i

----------------------------------------------------------------------------
(* The claims.                                                             *)

\* C1: a query fails with the "no route" condition (NetworkXNoPath) exactly
\* when the query's graph has no directed path from start to end, and in
\* every other case it shows a route from start to end.
C1_NoPathIffDisconnected ==
    Queried =>
        /\ (outcome = "no_route") <=> ~Connected(G_filtered, start, end)
        /\ Connected(G_filtered, start, end) =>
               /\ outcome = "route"
               /\ IsPath(G_filtered, path)
               /\ path[1] = start /\ path[Len(path)] = end

\* C2: a query whose start or end is no node of the query's graph ends in
\* the recoverable "no route" condition.
C2_AbsentNodeIsNoRoute ==
    (Queried /\ (start \notin Nodes(G_filtered) \/ end \notin Nodes(G_filtered)))
        => outcome = "no_route"

\* C3: the route shown has total emissions no higher than those of any
\* simple path from start to end in the query's graph.
C3_RouteIsMinimalInEmissions ==
    outcome = "route" =>
        \A q \in SimplePaths(G_filtered, start, end) :
            total_emission <= Total(G_filtered, q, "emission")

\* C3's case: a route of several edges is shown although a simple path of
\* fewer edges and of less distance, but of more emissions, exists.
C3_Witness ==
    /\ outcome = "route"
    /\ \E q \in SimplePaths(G_filtered, start, end) :
           /\ Len(q) < Len(path)
           /\ Total(G_filtered, q, "distance") < total_distance
           /\ Total(G_filtered, q, "emission") > total_emission

\* C4: every alternative route is a simple path from start to end of at most
\* 5 edges, and at most 5 alternative routes are listed.
C4_AlternativesBounded ==
    outcome = "route" =>
        /\ Len(all_routes) <= 5
        /\ \A i \in DOMAIN all_routes :
               LET r == all_routes[i].route
               IN  /\ IsPath(G_filtered, r)
                   /\ IsSimple(r)
                   /\ r[1] = start /\ r[Len(r)] = end
                   /\ Len(r) - 1 <= 5

\* C4's case: the graph holds more than 5 simple paths from start to end and
\* one of more than 5 edges, and 5 routes are listed.
C4_Witness ==
    /\ outcome = "route"
    /\ Len(all_routes) = 5
    /\ Cardinality(SimplePaths(G_filtered, start, end)) > 5
    /\ \E q \in SimplePaths(G_filtered, start, end) : Len(q) - 1 > 5

\* C5: the query's graph has the edge (o, d) exactly when some row has
\* origin o, destination d and the chosen mode (any mode for "All").
C5_EdgeIffMatchingRow ==
    Queried =>
        \A o, d \in Locations :
            HasEdge(G_filtered, o, d) <=> RowsOf(sc_df, transport_choice, o, d) # {}

\* C5's case: a mode is chosen and a row of another mode joins a pair that
\* no row of the chosen mode joins.
C5_Witness ==
    /\ Queried
    /\ transport_choice # "All"
    /\ \E o, d \in Locations :
           /\ RowsOf(sc_df, "All", o, d) # {}
           /\ RowsOf(sc_df, transport_choice, o, d) = {}
    /\ G_filtered # <<>>

\* C6: an edge carries the distance and the emissions of the last row that
\* passes the filter and joins its pair, and no pair has two edges; the same
\* holds of the module-level graph G of all rows.
C6_LastRowWins ==
    /\ \A i, j \in DOMAIN G :
           (G[i].u = G[j].u /\ G[i].v = G[j].v) => i = j
    /\ \A i \in DOMAIN G :
           LET row == sc_df[Last(RowsOf(sc_df, "All", G[i].u, G[i].v))]
           IN  G[i].distance = row.distance_km /\ G[i].emission = row.emissions_kgco2e
    /\ Queried =>
           /\ \A i, j \in DOMAIN G_filtered :
                  (G_filtered[i].u = G_filtered[j].u /\ G_filtered[i].v = G_filtered[j].v)
                      => i = j
           /\ \A i \in DOMAIN G_filtered :
                  LET e == G_filtered[i]
                      row == sc_df[Last(RowsOf(sc_df, transport_choice, e.u, e.v))]
                  IN  e.distance = row.distance_km /\ e.emission = row.emissions_kgco2e

\* C6's case: several rows of the chosen mode join the same pair, and the
\* last of them has higher emissions than an earlier one.
C6_Witness ==
    /\ Queried
    /\ transport_choice # "All"
    /\ \E o, d \in Locations :
           LET I == RowsOf(sc_df, transport_choice, o, d)
           IN  /\ Cardinality(I) >= 2
               /\ \E i \in I : /\ i < Last(I)
                               /\ sc_df[i].emissions_kgco2e < sc_df[Last(I)].emissions_kgco2e
               /\ EdgeData(G_filtered, o, d).emission = sc_df[Last(I)].emissions_kgco2e

\* C7: when start or end is no node of the query's graph, the enumeration of
\* alternative routes yields nothing and raises nothing.
C7_AbsentNodeEnumeratesEmpty ==
    (Queried /\ (start \notin Nodes(G_filtered) \/ end \notin Nodes(G_filtered)))
        => /\ all_simple_paths(G_filtered, start, end, cutoff)
                  = [status |-> "ok", paths |-> <<>>]
           /\ outcome # "NodeNotFound"

\* C8: the nodes of every route shown are joined by edges of the query's
\* graph, and the totals shown are the sums of the emissions and of the
\* distances of those edges (0 and 0 for a route of one node).
C8_TotalsAreEdgeSums ==
    outcome = "route" =>
        /\ IsPath(G_filtered, path)
        /\ total_emission = Total(G_filtered, path, "emission")
        /\ total_distance = Total(G_filtered, path, "distance")
        /\ \A i \in DOMAIN all_routes :
               LET r == all_routes[i]
               IN  /\ IsPath(G_filtered, r.route)
                   /\ r.emission = Total(G_filtered, r.route, "emission")
                   /\ r.distance = Total(G_filtered, r.route, "distance")

\* C8's case: a route of at least two edges with different emissions, listed
\* with alternatives of other totals.
C8_Witness ==
    /\ outcome = "route"
    /\ Len(path) >= 3
    /\ total_emission > 0
    /\ total_emission # total_distance
    /\ \E i \in DOMAIN all_routes :
           /\ Len(all_routes[i].route) >= 3
           /\ all_routes[i].emission # total_emission

\* What a query shows, from the data set and the query's own three inputs.
QueryResult(df, s, t, c) ==
    LET g == BuildFiltered(df, c)
        sp == shortest_path(g, s, t)
        alt == TakeRoutes(all_simple_paths(g, s, t, cutoff).paths)
    IN  IF sp.status = "ok"
        THEN <<g, "route", sp.path, Total(g, sp.path, "emission"),
               Total(g, sp.path, "distance"),
               [i \in DOMAIN alt |-> RouteEntry(g, alt[i])]>>
        ELSE <<g, IF sp.status = "NetworkXNoPath" THEN "no_route" ELSE sp.status,
               <<>>, 0, 0, <<>>>>

\* C9: every step leaves the data set and the graph of all rows as they are,
\* and what a query shows is decided by the data set and the query's own
\* start, end and transport choice, whatever was queried before.
C9_QueriesAreIndependent ==
    [][/\ sc_df' = sc_df
       /\ G' = G
       /\ Queried' =>
              <<G_filtered', outcome', path', total_emission', total_distance',
                all_routes'>> = QueryResult(sc_df', start', end', transport_choice')]_vars

\* C9's case: a query under a mode, whose graph lacks edges of the graph of
\* all rows and whose result is not the one the same query has under "All".
C9_Witness ==
    /\ outcome = "route"
    /\ transport_choice # "All"
    /\ EdgeSet(G_filtered) # EdgeSet(G)
    /\ QueryResult(sc_df, start, end, "All")[3] # path
    /\ QueryResult(sc_df, start, end, "All")[2] = "route"

\* C10: the planner has one leg per requested leg, the first leg starts at
\* the chosen origin, every later leg starts where the leg before it ends,
\* and the calculation lists one result per leg, in order, numbered from 1.
C10_LegsFormAChain ==
    feature = Planner =>
        /\ num_legs \in 1..5
        /\ Len(legs) = num_legs
        /\ legs[1].origin = origin_0
        /\ \A i \in 1..num_legs : legs[i].destination = dest[i]
        /\ \A i \in 1..(num_legs - 1) : legs[i + 1].origin = legs[i].destination
        /\ outcome = "plan" =>
               /\ Len(results) = num_legs
               /\ \A i \in 1..num_legs :
                      /\ results[i].Leg = i
                      /\ results[i].Origin = legs[i].origin
                      /\ results[i].Destination = legs[i].destination

\* C10's case: a calculated plan of 5 legs whose destinations differ from
\* leg to leg.
C10_Witness ==
    /\ feature = Planner
    /\ outcome = "plan"
    /\ num_legs = 5
    /\ Len(results) = 5
    /\ legs[2].origin # origin_0
    /\ dest[1] # dest[2] /\ dest[2] # dest[3] /\ dest[4] # dest[5]

====
